---------------------------- MODULE Spec2Model ----------------------------
(***************************************************************************)
(* Model of the aviation weather MCP server: the Tool Surface              *)
(* (src/src/main.py), the Weather Data Client (src/src/weather.py) and the *)
(* ATIS Data Client (src/src/atis.py).                                     *)
(*                                                                         *)
(* Python values are tagged pairs <<tag, payload>>: a str carries a TLA+   *)
(* string, an int an integer, a bool a BOOLEAN, a list a sequence of       *)
(* values and a dict a function from its keys (strings) to values.         *)
(***************************************************************************)
EXTENDS Integers, Sequences, FiniteSets, TLC

VARIABLES
    pc,       \* position of the running invocation: "idle", a sub-call, "done"
    call,     \* the operation invoked and its arguments
    locals,   \* local variables of a running composite operation
    http,     \* the HTTP exchanges of the invocation, in order
    result    \* what the invocation returned (or raised)

vars == <<pc, call, locals, http, result>>

---------------------------------------------------------------------------
(* Bounds of the model *)

\* longest generated station / airport identifier
MaxIdLen == 1
\* longest generated upstream JSON array
MaxListLen == 2
\* largest numeric parameter (hours, age, distance, level) a caller passes
MaxNum == 1
\* latest reading of the wall clock
MaxTick == 1

---------------------------------------------------------------------------
(* Python values *)

StrV(s) == <<"str", s>>
IntV(n) == <<"int", n>>
BoolV(b) == <<"bool", b>>
NoneV == <<"none", <<>>>>
ListV(s) == <<"list", s>>
DictV(f) == <<"dict", f>>
\* a raised exception leaving a function instead of a returned value
Raise(e) == <<"raise", e>>

Tag(v) == v[1]
Val(v) == v[2]

EmptyMap == [k \in {} |-> NoneV]

\* isinstance(v, dict), isinstance(v, list)
IsDict(v) == Tag(v) = "dict"
IsList(v) == Tag(v) = "list"
IsRaise(v) == Tag(v) = "raise"

\* key in d, d[key] for a dict value d
HasKey(d, k) == k \in DOMAIN Val(d)
Get(d, k) == Val(d)[k]

\* d[k] = v
SetItem(d, k, v) ==
    DictV([x \in (DOMAIN Val(d)) \cup {k} |-> IF x = k THEN v ELSE Val(d)[x]])

\* {k: v} when cond holds, {} otherwise: one "if x: params[k] = v" statement
Opt(cond, k, v) == IF cond THEN k :> v ELSE EmptyMap

---------------------------------------------------------------------------
(* Python built-ins used by the code *)

LowerLetters == "abcdefghijklmnopqrstuvwxyz"
UpperLetters == "ABCDEFGHIJKLMNOPQRSTUVWXYZ"
Digits == "0123456789"

CharAt(s, i) == SubSeq(s, i, i)

IndexIn(c, letters) ==
    IF \E i \in 1..Len(letters) : CharAt(letters, i) = c
    THEN CHOOSE i \in 1..Len(letters) : CharAt(letters, i) = c
    ELSE 0

UpperChar(c) ==
    IF IndexIn(c, LowerLetters) > 0
    THEN CharAt(UpperLetters, IndexIn(c, LowerLetters)) ELSE c

LowerChar(c) ==
    IF IndexIn(c, UpperLetters) > 0
    THEN CharAt(LowerLetters, IndexIn(c, UpperLetters)) ELSE c

RECURSIVE Upper(_)
\* str.upper()
Upper(s) ==
    IF Len(s) = 0 THEN ""
    ELSE UpperChar(CharAt(s, 1)) \o Upper(SubSeq(s, 2, Len(s)))

RECURSIVE Lower(_)
\* str.lower()
Lower(s) ==
    IF Len(s) = 0 THEN ""
    ELSE LowerChar(CharAt(s, 1)) \o Lower(SubSeq(s, 2, Len(s)))

IsSpace(c) == c \in {" ", "\t", "\n"}

RECURSIVE LStrip(_)
LStrip(s) ==
    IF Len(s) > 0 /\ IsSpace(CharAt(s, 1))
    THEN LStrip(SubSeq(s, 2, Len(s))) ELSE s

RECURSIVE RStrip(_)
RStrip(s) ==
    IF Len(s) > 0 /\ IsSpace(CharAt(s, Len(s)))
    THEN RStrip(SubSeq(s, 1, Len(s) - 1)) ELSE s

\* str.strip()
Strip(s) == RStrip(LStrip(s))

RECURSIVE NatToStr(_)
NatToStr(n) ==
    IF n < 10 THEN CharAt(Digits, n + 1)
    ELSE NatToStr(n \div 10) \o CharAt(Digits, (n % 10) + 1)

\* str(v) of a scalar
PyStr(v) ==
    CASE Tag(v) = "str" -> Val(v)
      [] Tag(v) = "int" -> IF Val(v) < 0 THEN "-" \o NatToStr(-Val(v))
                                         ELSE NatToStr(Val(v))
      [] Tag(v) = "bool" -> IF Val(v) THEN "True" ELSE "False"
      [] Tag(v) = "none" -> "None"

\* bool(v): what "if v:" tests
Truthy(v) ==
    CASE Tag(v) = "str" -> Val(v) # ""
      [] Tag(v) = "int" -> Val(v) # 0
      [] Tag(v) = "bool" -> Val(v)
      [] Tag(v) = "none" -> FALSE
      [] Tag(v) = "list" -> Len(Val(v)) > 0
      [] Tag(v) = "dict" -> DOMAIN Val(v) # {}

\* datetime.now().isoformat() when the clock reads t
isoformat(t) ==
    "2025-01-01T00:00:" \o (IF t < 10 THEN "0" ELSE "") \o NatToStr(t)

---------------------------------------------------------------------------
(* The upstream providers: what one HTTP GET can come back with *)

\* a body response.json() decodes to v, and a body it rejects with
\* json.JSONDecodeError, whose text is t
JsonBody(v) == <<"json", v>>
TextBody(t) == <<"text", t>>

Response(status, reason, body) ==
    [kind |-> "response", status |-> status, reason |-> reason, body |-> body]

\* an exception: its class, str(e) and getattr(e.response, 'status_code', None)
Exc(cls, msg, status) == [cls |-> cls, msg |-> msg, status |-> status]
NoExc == Exc("", "", NoneV)

Failure(e) == [kind |-> "exception", exc |-> e]

RECURSIVE ListsUpTo(_, _)
\* the sequences of at most n elements of S
ListsUpTo(S, n) ==
    IF n = 0 THEN {<<>>}
    ELSE {<<>>} \cup {<<x>> \o l : x \in S, l \in ListsUpTo(S, n - 1)}

JsonObjects ==
    { DictV(EmptyMap),
      DictV([airport |-> StrV("KLAX"), code |-> StrV("A")]),
      DictV([airport |-> StrV("KLAX"), metadata |-> StrV("upstream")]),
      DictV([error |-> StrV("not found")]),
      DictV([error |-> NoneV, metadata |-> IntV(7)]) }

JsonArrays ==
    { ListV(l) : l \in ListsUpTo({IntV(1)}, MaxListLen) }
    \cup { ListV(<<DictV([error |-> StrV("e")]), StrV("KLAX")>>) }

JsonScalars == { NoneV, BoolV(TRUE), IntV(12), StrV("ok") }

NonJsonTexts == { "", "METAR KJFK 011651Z" }

\* responses raise_for_status lets through
SuccessResponses ==
    { Response(200, "OK", JsonBody(v)) : v \in JsonObjects \cup JsonArrays \cup JsonScalars }
    \cup { Response(200, "OK", TextBody(t)) : t \in NonJsonTexts }
    \cup { Response(201, "Created", JsonBody(DictV([error |-> StrV("not found")]))),
           Response(304, "Not Modified", TextBody("")) }

\* responses raise_for_status turns into an HTTPError
ErrorResponses ==
    { Response(404, "Not Found", JsonBody(DictV([error |-> StrV("not found")]))),
      Response(404, "Not Found", TextBody("gone")),
      Response(500, "Internal Server Error", JsonBody(ListV(<<>>))) }

\* session.get itself failing: no response was received
TransportFailures ==
    { Failure(Exc("ConnectionError", "Connection refused", NoneV)),
      Failure(Exc("Timeout", "Read timed out. (read timeout=30)", NoneV)) }

Outcomes == SuccessResponses \cup ErrorResponses \cup TransportFailures

\* what the sub-calls of a composite operation come back with
SubOutcomes ==
    { Response(200, "OK", JsonBody(ListV(<<IntV(1)>>))),
      Response(200, "OK", JsonBody(DictV([airport |-> StrV("KLAX"), code |-> StrV("A")]))),
      Response(404, "Not Found", TextBody("gone")),
      Failure(Exc("Timeout", "Read timed out. (read timeout=30)", NoneV)) }

---------------------------------------------------------------------------
(* requests: raise_for_status and the exception hierarchy *)

\* the HTTPError raise_for_status builds for a 4xx / 5xx response; the URL
\* in its message is the request URL, here without its query string
HTTPError(url, response) ==
    Exc("HTTPError",
        NatToStr(response.status)
            \o (IF response.status < 500 THEN " Client Error: " ELSE " Server Error: ")
            \o response.reason \o " for url: " \o url,
        IntV(response.status))

\* the exception the body of the outer try meets: session.get raising, or
\* response.raise_for_status() raising; NoExc when neither does
RaisedBy(url, outcome) ==
    IF outcome.kind = "exception" THEN outcome.exc
    ELSE IF outcome.status >= 400 /\ outcome.status < 600
         THEN HTTPError(url, outcome)
         ELSE NoExc

\* mutant: the except clause names requests.HTTPError only
Mut_CatchesOnlyHTTPError(e) == e.cls = "HTTPError"

\* isinstance(e, requests.RequestException)
IsRequestException(e) ==
    e.cls \in {"RequestException", "ConnectionError", "Timeout", "HTTPError"}

\* one recorded HTTP exchange: the request, what came back, and what
\* _make_request returned for it
Exchange(client, endpoint, url, params, outcome, ret) ==
    [client |-> client, endpoint |-> endpoint, url |-> url, params |-> params,
     outcome |-> outcome, ret |-> ret]

---------------------------------------------------------------------------
(* WeatherRetriever *)

WeatherBaseUrl == "https://aviationweather.gov/api"

\* mutant: a decoded list is returned as it is, without the {data, count} wrap
Mut_WeatherReturnsBareList(endpoint, params, outcome) ==
    LET url == WeatherBaseUrl \o endpoint
        e == RaisedBy(url, outcome)
    IN  IF e # NoExc
        THEN IF IsRequestException(e)
             THEN DictV([error |-> StrV(e.msg), status_code |-> e.status])
             ELSE Raise(e)
        ELSE IF outcome.body[1] = "json"
             THEN LET data == outcome.body[2]
                  IN  IF IsList(data) \/ IsDict(data)
                      THEN data
                      ELSE DictV([data |-> data, raw_value |-> StrV(PyStr(data))])
             ELSE DictV([raw_data |-> StrV(outcome.body[2])])

\* mutant: the weather client takes over the ATIS client's check for an
\* upstream 'error' key
Mut_WeatherChecksErrorKey(endpoint, params, outcome) ==
    LET url == WeatherBaseUrl \o endpoint
        e == RaisedBy(url, outcome)
    IN  IF e # NoExc
        THEN IF IsRequestException(e)
             THEN DictV([error |-> StrV(e.msg), status_code |-> e.status])
             ELSE Raise(e)
        ELSE IF outcome.body[1] = "json"
             THEN LET data == outcome.body[2]
                  IN  IF IsDict(data) /\ HasKey(data, "error")
                      THEN DictV([error |-> Get(data, "error"),
                                  status_code |-> IntV(outcome.status)])
                      ELSE IF IsList(data)
                      THEN DictV([data |-> data, count |-> IntV(Len(Val(data)))])
                      ELSE IF IsDict(data)
                           THEN data
                           ELSE DictV([data |-> data, raw_value |-> StrV(PyStr(data))])
             ELSE DictV([raw_data |-> StrV(outcome.body[2])])

WeatherRetriever_make_request(endpoint, params, outcome) ==
    LET url == WeatherBaseUrl \o endpoint
        e == RaisedBy(url, outcome)
    IN  IF e # NoExc
        THEN IF IsRequestException(e)
             THEN DictV([error |-> StrV(e.msg), status_code |-> e.status])
             ELSE Raise(e)
        ELSE IF outcome.body[1] = "json"
             THEN LET data == outcome.body[2]
                  IN  IF IsList(data)
                      THEN DictV([data |-> data, count |-> IntV(Len(Val(data)))])
                      ELSE IF IsDict(data)
                           THEN data
                           ELSE DictV([data |-> data, raw_value |-> StrV(PyStr(data))])
             ELSE DictV([raw_data |-> StrV(outcome.body[2])])

\* self._make_request(endpoint, params), with the exchange kept
WeatherGet(endpoint, params, outcome) ==
    LET ret == WeatherRetriever_make_request(endpoint, params, outcome)
    IN  [http |-> <<Exchange("weather", endpoint, WeatherBaseUrl \o endpoint,
                             params, outcome, ret)>>,
         ret |-> ret]

get_metar(ids, format, taf, hours, bbox, date, outcome) ==
    LET params == Opt(Truthy(ids), "ids", ids)
               @@ Opt(Truthy(format), "format", format)
               @@ Opt(taf # NoneV, "taf", StrV(Lower(PyStr(taf))))
               @@ Opt(Truthy(hours), "hours", hours)
               @@ Opt(Truthy(bbox), "bbox", bbox)
               @@ Opt(Truthy(date), "date", date)
    IN  WeatherGet("/data/metar", params, outcome)

\* mutant: the flag is serialized as str(metar), without .lower()
Mut_get_taf_NoLower(ids, format, metar, bbox, time, date, outcome) ==
    LET params == Opt(Truthy(ids), "ids", ids)
               @@ Opt(Truthy(format), "format", format)
               @@ Opt(metar # NoneV, "metar", StrV(PyStr(metar)))
               @@ Opt(Truthy(bbox), "bbox", bbox)
               @@ Opt(Truthy(time), "time", time)
               @@ Opt(Truthy(date), "date", date)
    IN  WeatherGet("/data/taf", params, outcome)

get_taf(ids, format, metar, bbox, time, date, outcome) ==
    LET params == Opt(Truthy(ids), "ids", ids)
               @@ Opt(Truthy(format), "format", format)
               @@ Opt(metar # NoneV, "metar", StrV(Lower(PyStr(metar))))
               @@ Opt(Truthy(bbox), "bbox", bbox)
               @@ Opt(Truthy(time), "time", time)
               @@ Opt(Truthy(date), "date", date)
    IN  WeatherGet("/data/taf", params, outcome)

get_pirep(id, format, raw, age, distance, level, inten, date, outcome) ==
    LET params == Opt(Truthy(id), "id", id)
               @@ Opt(Truthy(format), "format", format)
               @@ Opt(raw # NoneV, "raw", StrV(Lower(PyStr(raw))))
               @@ Opt(Truthy(age), "age", age)
               @@ Opt(Truthy(distance), "distance", distance)
               @@ Opt(Truthy(level), "level", level)
               @@ Opt(Truthy(inten), "inten", inten)
               @@ Opt(Truthy(date), "date", date)
    IN  WeatherGet("/data/pirep", params, outcome)

get_airsigmet(format, hazard, level, date, outcome) ==
    LET params == Opt(Truthy(format), "format", format)
               @@ Opt(Truthy(hazard), "hazard", hazard)
               @@ Opt(Truthy(level), "level", level)
               @@ Opt(Truthy(date), "date", date)
    IN  WeatherGet("/data/airsigmet", params, outcome)

get_isigmet(format, hazard, level, date, outcome) ==
    LET params == Opt(Truthy(format), "format", format)
               @@ Opt(Truthy(hazard), "hazard", hazard)
               @@ Opt(Truthy(level), "level", level)
               @@ Opt(Truthy(date), "date", date)
    IN  WeatherGet("/data/isigmet", params, outcome)

get_gairmet(type, format, hazard, date, outcome) ==
    LET params == Opt(Truthy(type), "type", type)
               @@ Opt(Truthy(format), "format", format)
               @@ Opt(Truthy(hazard), "hazard", hazard)
               @@ Opt(Truthy(date), "date", date)
    IN  WeatherGet("/data/gairmet", params, outcome)

get_cwa(hazard, date, outcome) ==
    LET params == Opt(Truthy(hazard), "hazard", hazard)
               @@ Opt(Truthy(date), "date", date)
    IN  WeatherGet("/data/cwa", params, outcome)

get_windtemp(region, level, fcst, outcome) ==
    LET params == ("region" :> region)
               @@ Opt(Truthy(level), "level", level)
               @@ Opt(Truthy(fcst), "fcst", fcst)
    IN  WeatherGet("/data/windtemp", params, outcome)

get_areafcst(region, outcome) ==
    WeatherGet("/data/areafcst", "region" :> region, outcome)

get_fcstdisc(cwa, type, outcome) ==
    LET params == ("type" :> type)
               @@ Opt(Truthy(cwa), "cwa", cwa)
    IN  WeatherGet("/data/fcstdisc", params, outcome)

get_mis(loc, outcome) ==
    WeatherGet("/data/mis", Opt(Truthy(loc), "loc", loc), outcome)

get_stationinfo(ids, bbox, format, outcome) ==
    LET params == ("format" :> format)
               @@ Opt(Truthy(ids), "ids", ids)
               @@ Opt(Truthy(bbox), "bbox", bbox)
    IN  WeatherGet("/data/stationinfo", params, outcome)

get_airport(ids, bbox, format, outcome) ==
    LET params == ("format" :> format)
               @@ Opt(Truthy(ids), "ids", ids)
               @@ Opt(Truthy(bbox), "bbox", bbox)
    IN  WeatherGet("/data/airport", params, outcome)

get_navaid(ids, bbox, format, outcome) ==
    LET params == ("format" :> format)
               @@ Opt(Truthy(ids), "ids", ids)
               @@ Opt(Truthy(bbox), "bbox", bbox)
    IN  WeatherGet("/data/navaid", params, outcome)

get_fix(ids, bbox, format, outcome) ==
    LET params == ("format" :> format)
               @@ Opt(Truthy(ids), "ids", ids)
               @@ Opt(Truthy(bbox), "bbox", bbox)
    IN  WeatherGet("/data/fix", params, outcome)

get_feature(bbox, format, outcome) ==
    LET params == ("format" :> format)
               @@ Opt(Truthy(bbox), "bbox", bbox)
    IN  WeatherGet("/data/feature", params, outcome)

get_obstacle(bbox, format, outcome) ==
    LET params == ("format" :> format)
               @@ Opt(Truthy(bbox), "bbox", bbox)
    IN  WeatherGet("/data/obstacle", params, outcome)

RECURSIVE Join(_, _)
\* sep.join(parts) for a list of str
Join(sep, parts) ==
    IF Len(parts) = 0 THEN ""
    ELSE IF Len(parts) = 1 THEN Val(parts[1])
    ELSE Val(parts[1]) \o sep \o Join(sep, Tail(parts))

\* mutant: the TAF lookup is made whatever include_taf says
Mut_SummaryAlwaysTaf(include_taf) == "ws_taf"

\* get_weather_summary: the sub-call that follows the METAR lookup
SummaryAfterMetar(include_taf) ==
    IF Truthy(include_taf) THEN "ws_taf" ELSE "ws_stationinfo"

\* get_weather_summary: the mapping it returns
SummaryBundle(metar_data, taf_data, station_info, now, station_ids) ==
    DictV([metar |-> metar_data,
           taf |-> taf_data,
           station_info |-> station_info,
           timestamp |-> StrV(isoformat(now)),
           stations_requested |-> station_ids])

\* get_area_weather: the sub-call that follows the TAF lookup (or its skipping)
AreaAfterTaf(include_sigmet) ==
    IF Truthy(include_sigmet) THEN "aw_sigmet" ELSE "aw_stationinfo"

\* get_area_weather: the sub-call that follows the METAR lookup
AreaAfterMetar(include_taf, include_sigmet) ==
    IF Truthy(include_taf) THEN "aw_taf" ELSE AreaAfterTaf(include_sigmet)

\* get_area_weather: the mapping it returns
AreaBundle(metar_data, taf_data, sigmet_data, station_info, bbox, now) ==
    DictV([metar |-> metar_data,
           taf |-> taf_data,
           sigmet |-> sigmet_data,
           station_info |-> station_info,
           bbox |-> bbox,
           timestamp |-> StrV(isoformat(now))])

---------------------------------------------------------------------------
(* ATISRetriever *)

ATISBaseUrl == "https://datis.clowd.io/api"

\* mutant: raw_value carries the decoded value itself instead of str(data)
Mut_ATISRawValueNotStr(endpoint, params, outcome) ==
    LET url == ATISBaseUrl \o endpoint
        e == RaisedBy(url, outcome)
    IN  IF e # NoExc
        THEN IF IsRequestException(e)
             THEN DictV([error |-> StrV(e.msg), status_code |-> e.status])
             ELSE Raise(e)
        ELSE IF outcome.body[1] = "json"
             THEN LET data == outcome.body[2]
                  IN  IF IsDict(data) /\ HasKey(data, "error")
                      THEN DictV([error |-> Get(data, "error"),
                                  status_code |-> IntV(outcome.status)])
                      ELSE IF IsList(data)
                      THEN DictV([data |-> data, count |-> IntV(Len(Val(data)))])
                      ELSE IF IsDict(data)
                           THEN data
                           ELSE DictV([data |-> data, raw_value |-> data])
             ELSE DictV([raw_data |-> StrV(outcome.body[2])])

\* a faulty variant: the body is decoded and its 'error' key looked for
\* before the status is validated
Mut_ATISErrorKeyBeforeStatus(endpoint, params, outcome) ==
    LET url == ATISBaseUrl \o endpoint
        e == RaisedBy(url, outcome)
    IN  IF /\ outcome.kind = "response"
           /\ outcome.body[1] = "json"
           /\ IsDict(outcome.body[2])
           /\ HasKey(outcome.body[2], "error")
        THEN DictV([error |-> Get(outcome.body[2], "error"),
                    status_code |-> IntV(outcome.status)])
        ELSE IF e # NoExc
        THEN IF IsRequestException(e)
             THEN DictV([error |-> StrV(e.msg), status_code |-> e.status])
             ELSE Raise(e)
        ELSE IF outcome.body[1] = "json"
             THEN LET data == outcome.body[2]
                  IN  IF IsList(data)
                      THEN DictV([data |-> data, count |-> IntV(Len(Val(data)))])
                      ELSE IF IsDict(data)
                           THEN data
                           ELSE DictV([data |-> data, raw_value |-> StrV(PyStr(data))])
             ELSE DictV([raw_data |-> StrV(outcome.body[2])])

ATISRetriever_make_request(endpoint, params, outcome) ==
    LET url == ATISBaseUrl \o endpoint
        e == RaisedBy(url, outcome)
    IN  IF e # NoExc
        THEN IF IsRequestException(e)
             THEN DictV([error |-> StrV(e.msg), status_code |-> e.status])
             ELSE Raise(e)
        ELSE IF outcome.body[1] = "json"
             THEN LET data == outcome.body[2]
                  IN  IF IsDict(data) /\ HasKey(data, "error")
                      THEN DictV([error |-> Get(data, "error"),
                                  status_code |-> IntV(outcome.status)])
                      ELSE IF IsList(data)
                      THEN DictV([data |-> data, count |-> IntV(Len(Val(data)))])
                      ELSE IF IsDict(data)
                           THEN data
                           ELSE DictV([data |-> data, raw_value |-> StrV(PyStr(data))])
             ELSE DictV([raw_data |-> StrV(outcome.body[2])])

\* self._make_request(endpoint), with the exchange kept; params is None
ATISGet(endpoint, outcome) ==
    LET ret == ATISRetriever_make_request(endpoint, NoneV, outcome)
    IN  [http |-> <<Exchange("atis", endpoint, ATISBaseUrl \o endpoint,
                             NoneV, outcome, ret)>>,
         ret |-> ret]

get_stations(outcome) == ATISGet("/stations", outcome)

get_all_atis(outcome) == ATISGet("/all", outcome)

get_airport_atis(airport_id, outcome) ==
    ATISGet("/" \o Strip(Upper(Val(airport_id))), outcome)

\* mutant: the metadata is attached without the test for an 'error' key
Mut_get_airport_atis_with_info_Always(airport_id, outcome, now) ==
    LET aid == StrV(Strip(Upper(Val(airport_id))))
        r == get_airport_atis(aid, outcome)
        metadata == DictV([airport_id |-> aid,
                           timestamp |-> StrV(isoformat(now)),
                           source |-> StrV("FAA Digital ATIS API")])
        AddMetadata(res) == SetItem(res, "metadata", metadata)
    IN  [http |-> r.http, ret |-> IF IsRaise(r.ret) THEN r.ret ELSE AddMetadata(r.ret)]

get_airport_atis_with_info(airport_id, outcome, now) ==
    LET aid == StrV(Strip(Upper(Val(airport_id))))
        r == get_airport_atis(aid, outcome)
        metadata == DictV([airport_id |-> aid,
                           timestamp |-> StrV(isoformat(now)),
                           source |-> StrV("FAA Digital ATIS API")])
        AddMetadata(res) ==
            IF ~HasKey(res, "error") THEN SetItem(res, "metadata", metadata) ELSE res
    IN  [http |-> r.http, ret |-> IF IsRaise(r.ret) THEN r.ret ELSE AddMetadata(r.ret)]

---------------------------------------------------------------------------
(* Tool Surface *)

\* a faulty variant: a mapping is wrapped like a list
Mut_ensure_dict_response_WrapsDict(res) ==
    IF IsList(res)
    THEN DictV([data |-> res, count |-> IntV(Len(Val(res)))])
    ELSE IF IsDict(res)
         THEN DictV([data |-> res, count |-> IntV(Cardinality(DOMAIN Val(res)))])
         ELSE DictV([data |-> res, raw_value |-> StrV(PyStr(res))])

ensure_dict_response(res) ==
    IF IsList(res)
    THEN DictV([data |-> res, count |-> IntV(Len(Val(res)))])
    ELSE IF IsDict(res)
         THEN res
         ELSE DictV([data |-> res, raw_value |-> StrV(PyStr(res))])

get_metar_data(station_id, format, hours_back, date, outcome) ==
    LET sid == StrV(Strip(Upper(Val(station_id))))
        r == get_metar(sid, format, BoolV(FALSE), hours_back, NoneV, date, outcome)
    IN  [http |-> r.http, ret |-> IF IsRaise(r.ret) THEN r.ret ELSE ensure_dict_response(r.ret)]

get_taf_data(station_id, format, time, date, outcome) ==
    LET sid == StrV(Strip(Upper(Val(station_id))))
        r == get_taf(sid, format, BoolV(FALSE), NoneV, time, date, outcome)
    IN  [http |-> r.http, ret |-> IF IsRaise(r.ret) THEN r.ret ELSE ensure_dict_response(r.ret)]

get_pirep_data(station_id, format, age, distance, level, intensity, date, outcome) ==
    LET r == get_pirep(station_id, format, NoneV, age, distance, level,
                       intensity, date, outcome)
    IN  [http |-> r.http, ret |-> IF IsRaise(r.ret) THEN r.ret ELSE ensure_dict_response(r.ret)]

get_airport_information(airport_id, format, outcome) ==
    LET aid == StrV(Strip(Upper(Val(airport_id))))
        r == get_airport(aid, NoneV, format, outcome)
    IN  [http |-> r.http, ret |-> IF IsRaise(r.ret) THEN r.ret ELSE ensure_dict_response(r.ret)]

get_atis_data(airport_id, outcome, now) ==
    LET aid == StrV(Strip(Upper(Val(airport_id))))
        r == get_airport_atis_with_info(aid, outcome, now)
    IN  [http |-> r.http, ret |-> IF IsRaise(r.ret) THEN r.ret ELSE ensure_dict_response(r.ret)]

---------------------------------------------------------------------------
(* Inputs a caller can pass *)

IdAlphabet == {"k", " "}

RECURSIVE StringsUpTo(_)
StringsUpTo(n) ==
    IF n = 0 THEN {""}
    ELSE {""} \cup {c \o s : c \in IdAlphabet, s \in StringsUpTo(n - 1)}

\* identifiers as callers of the tools type them
IdInputs ==
    { StrV(s) : s \in StringsUpTo(MaxIdLen) \cup {" kjfk ", "klax", "KJFK", "\tKlax\n"} }

\* an optional str argument: None or text
OptText(x) == { NoneV, StrV(x) }
\* an optional str argument that may also be passed empty
OptTextOrEmpty(x) == { NoneV, StrV(""), StrV(x) }
FormatInputs == { StrV("json"), StrV("") }
OptNumInputs == { NoneV } \cup { IntV(n) : n \in 0..MaxNum }
NumInputs == { IntV(n) : n \in 0..MaxNum }
OptFlagInputs == { NoneV, BoolV(TRUE), BoolV(FALSE) }
FlagInputs == { BoolV(TRUE), BoolV(FALSE) }
DateInput == "20250101_0000"
BboxInput == "40,-90,45,-85"
Ticks == 0..MaxTick

StationLists ==
    { ListV(<<>>), ListV(<<StrV("KJFK")>>), ListV(<<StrV("KJFK"), StrV("KLAX")>>),
      ListV(<<StrV(" kjfk")>>) }

---------------------------------------------------------------------------
(* The state machine *)

NoCall == [op |-> "none", layer |-> "none", args |-> EmptyMap]
NoLocals == EmptyMap

Init ==
    /\ pc = "idle"
    /\ call = NoCall
    /\ locals = NoLocals
    /\ http = <<>>
    /\ result = NoneV

\* a one-request operation runs from call to return
Finish(layer, op, args, r) ==
    /\ pc' = "done"
    /\ call' = [op |-> op, layer |-> layer, args |-> args]
    /\ locals' = NoLocals
    /\ http' = r.http
    /\ result' = r.ret

(* Tool Surface operations *)

CallGetMetarData ==
    /\ pc = "idle"
    /\ \E station_id \in IdInputs, format \in FormatInputs,
          hours_back \in OptNumInputs, date \in OptText(DateInput),
          outcome \in Outcomes :
          Finish("tool", "get_metar_data",
                 [station_id |-> station_id, format |-> format,
                  hours_back |-> hours_back, date |-> date],
                 get_metar_data(station_id, format, hours_back, date, outcome))

CallGetTafData ==
    /\ pc = "idle"
    /\ \E station_id \in IdInputs, format \in FormatInputs,
          time \in OptText("valid"), date \in OptText(DateInput),
          outcome \in Outcomes :
          Finish("tool", "get_taf_data",
                 [station_id |-> station_id, format |-> format,
                  time |-> time, date |-> date],
                 get_taf_data(station_id, format, time, date, outcome))

CallGetPirepData ==
    /\ pc = "idle"
    /\ \E station_id \in IdInputs \cup {NoneV}, format \in FormatInputs,
          age \in OptNumInputs, distance \in OptNumInputs, level \in OptNumInputs,
          intensity \in OptText("mod"), date \in OptText(DateInput),
          outcome \in Outcomes :
          Finish("tool", "get_pirep_data",
                 [station_id |-> station_id, format |-> format, age |-> age,
                  distance |-> distance, level |-> level,
                  intensity |-> intensity, date |-> date],
                 get_pirep_data(station_id, format, age, distance, level,
                                intensity, date, outcome))

CallGetAirportInformation ==
    /\ pc = "idle"
    /\ \E airport_id \in IdInputs, format \in FormatInputs, outcome \in Outcomes :
          Finish("tool", "get_airport_information",
                 [airport_id |-> airport_id, format |-> format],
                 get_airport_information(airport_id, format, outcome))

CallGetAtisData ==
    /\ pc = "idle"
    /\ \E airport_id \in IdInputs, outcome \in Outcomes, now \in Ticks :
          Finish("tool", "get_atis_data",
                 [airport_id |-> airport_id],
                 get_atis_data(airport_id, outcome, now))

(* WeatherRetriever operations called directly *)

CallGetMetar ==
    /\ pc = "idle"
    /\ \E ids \in OptText("kjfk,KLAX"), format \in OptTextOrEmpty("json"),
          taf \in OptFlagInputs, hours \in OptNumInputs,
          bbox \in OptText(BboxInput), date \in OptText(DateInput),
          outcome \in Outcomes :
          Finish("client", "get_metar",
                 [ids |-> ids, format |-> format, taf |-> taf, hours |-> hours,
                  bbox |-> bbox, date |-> date],
                 get_metar(ids, format, taf, hours, bbox, date, outcome))

CallGetTaf ==
    /\ pc = "idle"
    /\ \E ids \in OptText("kjfk,KLAX"), format \in OptTextOrEmpty("json"),
          metar \in OptFlagInputs, bbox \in OptText(BboxInput),
          time \in OptText("valid"), date \in OptText(DateInput),
          outcome \in Outcomes :
          Finish("client", "get_taf",
                 [ids |-> ids, format |-> format, metar |-> metar, bbox |-> bbox,
                  time |-> time, date |-> date],
                 get_taf(ids, format, metar, bbox, time, date, outcome))

CallGetPirep ==
    /\ pc = "idle"
    /\ \E id \in OptText("kjfk"), format \in FormatInputs,
          raw \in { NoneV, BoolV(TRUE) },
          age \in OptNumInputs, distance \in OptNumInputs, level \in OptNumInputs,
          inten \in OptText("mod"), date \in OptText(DateInput),
          outcome \in Outcomes :
          Finish("client", "get_pirep",
                 [id |-> id, format |-> format, raw |-> raw, age |-> age,
                  distance |-> distance, level |-> level, inten |-> inten,
                  date |-> date],
                 get_pirep(id, format, raw, age, distance, level, inten, date,
                           outcome))

CallGetAirsigmet ==
    /\ pc = "idle"
    /\ \E format \in OptTextOrEmpty("json"), hazard \in OptText("turb"),
          level \in OptNumInputs, date \in OptText(DateInput), outcome \in Outcomes :
          Finish("client", "get_airsigmet",
                 [format |-> format, hazard |-> hazard, level |-> level, date |-> date],
                 get_airsigmet(format, hazard, level, date, outcome))

CallGetIsigmet ==
    /\ pc = "idle"
    /\ \E format \in OptTextOrEmpty("json"), hazard \in OptText("ice"),
          level \in OptNumInputs, date \in OptText(DateInput), outcome \in Outcomes :
          Finish("client", "get_isigmet",
                 [format |-> format, hazard |-> hazard, level |-> level, date |-> date],
                 get_isigmet(format, hazard, level, date, outcome))

CallGetGairmet ==
    /\ pc = "idle"
    /\ \E type \in OptTextOrEmpty("sierra"), format \in OptTextOrEmpty("decoded"),
          hazard \in OptText("ifr"), date \in OptText(DateInput), outcome \in Outcomes :
          Finish("client", "get_gairmet",
                 [type |-> type, format |-> format, hazard |-> hazard, date |-> date],
                 get_gairmet(type, format, hazard, date, outcome))

CallGetCwa ==
    /\ pc = "idle"
    /\ \E hazard \in OptTextOrEmpty("ts"), date \in OptTextOrEmpty(DateInput),
          outcome \in Outcomes :
          Finish("client", "get_cwa", [hazard |-> hazard, date |-> date],
                 get_cwa(hazard, date, outcome))

CallGetWindtemp ==
    /\ pc = "idle"
    /\ \E region \in OptTextOrEmpty("us"), level \in OptTextOrEmpty("low"),
          fcst \in OptTextOrEmpty("06"), outcome \in Outcomes :
          Finish("client", "get_windtemp",
                 [region |-> region, level |-> level, fcst |-> fcst],
                 get_windtemp(region, level, fcst, outcome))

CallGetAreafcst ==
    /\ pc = "idle"
    /\ \E region \in OptTextOrEmpty("aknorth"), outcome \in Outcomes :
          Finish("client", "get_areafcst", [region |-> region],
                 get_areafcst(region, outcome))

CallGetFcstdisc ==
    /\ pc = "idle"
    /\ \E cwa \in OptTextOrEmpty("BOX"), type \in OptTextOrEmpty("afd"),
          outcome \in Outcomes :
          Finish("client", "get_fcstdisc", [cwa |-> cwa, type |-> type],
                 get_fcstdisc(cwa, type, outcome))

CallGetMis ==
    /\ pc = "idle"
    /\ \E loc \in OptTextOrEmpty("ZOB"), outcome \in Outcomes :
          Finish("client", "get_mis", [loc |-> loc], get_mis(loc, outcome))

CallGetStationinfo ==
    /\ pc = "idle"
    /\ \E ids \in OptTextOrEmpty("KJFK"), bbox \in OptTextOrEmpty(BboxInput),
          format \in OptTextOrEmpty("json"), outcome \in Outcomes :
          Finish("client", "get_stationinfo",
                 [ids |-> ids, bbox |-> bbox, format |-> format],
                 get_stationinfo(ids, bbox, format, outcome))

CallGetAirport ==
    /\ pc = "idle"
    /\ \E ids \in OptTextOrEmpty("KJFK"), bbox \in OptTextOrEmpty(BboxInput),
          format \in OptTextOrEmpty("json"), outcome \in Outcomes :
          Finish("client", "get_airport",
                 [ids |-> ids, bbox |-> bbox, format |-> format],
                 get_airport(ids, bbox, format, outcome))

CallGetNavaid ==
    /\ pc = "idle"
    /\ \E ids \in OptTextOrEmpty("BOSOX"), bbox \in OptTextOrEmpty(BboxInput),
          format \in OptTextOrEmpty("json"), outcome \in Outcomes :
          Finish("client", "get_navaid",
                 [ids |-> ids, bbox |-> bbox, format |-> format],
                 get_navaid(ids, bbox, format, outcome))

CallGetFix ==
    /\ pc = "idle"
    /\ \E ids \in OptTextOrEmpty("BOSOX"), bbox \in OptTextOrEmpty(BboxInput),
          format \in OptTextOrEmpty("json"), outcome \in Outcomes :
          Finish("client", "get_fix",
                 [ids |-> ids, bbox |-> bbox, format |-> format],
                 get_fix(ids, bbox, format, outcome))

CallGetFeature ==
    /\ pc = "idle"
    /\ \E bbox \in OptTextOrEmpty(BboxInput), format \in OptTextOrEmpty("json"),
          outcome \in Outcomes :
          Finish("client", "get_feature", [bbox |-> bbox, format |-> format],
                 get_feature(bbox, format, outcome))

CallGetObstacle ==
    /\ pc = "idle"
    /\ \E bbox \in OptTextOrEmpty(BboxInput), format \in OptTextOrEmpty("json"),
          outcome \in Outcomes :
          Finish("client", "get_obstacle", [bbox |-> bbox, format |-> format],
                 get_obstacle(bbox, format, outcome))

(* ATISRetriever operations called directly *)

CallGetStations ==
    /\ pc = "idle"
    /\ \E outcome \in Outcomes :
          Finish("client", "get_stations", EmptyMap, get_stations(outcome))

CallGetAllAtis ==
    /\ pc = "idle"
    /\ \E outcome \in Outcomes :
          Finish("client", "get_all_atis", EmptyMap, get_all_atis(outcome))

CallGetAirportAtis ==
    /\ pc = "idle"
    /\ \E airport_id \in IdInputs, outcome \in Outcomes :
          Finish("client", "get_airport_atis", [airport_id |-> airport_id],
                 get_airport_atis(airport_id, outcome))

CallGetAirportAtisWithInfo ==
    /\ pc = "idle"
    /\ \E airport_id \in IdInputs, outcome \in Outcomes, now \in Ticks :
          Finish("client", "get_airport_atis_with_info", [airport_id |-> airport_id],
                 get_airport_atis_with_info(airport_id, outcome, now))

(* The composite operations: one step per blocking sub-call *)

\* a faulty variant: a sub-call that came back with an error mapping is
\* issued again
Mut_SubCallRetries(r, assigned, nextpc) ==
    /\ http' = http \o r.http
    /\ IF IsRaise(r.ret)
       THEN /\ pc' = "done"
            /\ result' = r.ret
            /\ locals' = locals
       ELSE /\ pc' = IF HasKey(r.ret, "error") THEN pc ELSE nextpc
            /\ result' = result
            /\ locals' = assigned @@ locals
    /\ UNCHANGED call

\* a faulty variant: a sub-call that came back with an error mapping ends
\* the operation, the error mapping being its result
Mut_SubCallAbortsOnError(r, assigned, nextpc) ==
    /\ http' = http \o r.http
    /\ IF IsRaise(r.ret) \/ HasKey(r.ret, "error")
       THEN /\ pc' = "done"
            /\ result' = r.ret
            /\ locals' = locals
       ELSE /\ pc' = nextpc
            /\ result' = result
            /\ locals' = assigned @@ locals
    /\ UNCHANGED call

\* a sub-call returned r: keep its value in the local variable and move on,
\* or leave the operation with the exception it raised
SubCall(r, assigned, nextpc) ==
    /\ http' = http \o r.http
    /\ IF IsRaise(r.ret)
       THEN /\ pc' = "done"
            /\ result' = r.ret
            /\ locals' = locals
       ELSE /\ pc' = nextpc
            /\ result' = result
            /\ locals' = assigned @@ locals
    /\ UNCHANGED call

\* the last sub-call returned r: return the bundle
LastSubCall(r, bundle) ==
    /\ http' = http \o r.http
    /\ pc' = "done"
    /\ result' = IF IsRaise(r.ret) THEN r.ret ELSE bundle
    /\ UNCHANGED <<call, locals>>

CallGetWeatherSummary ==
    /\ pc = "idle"
    /\ \E station_ids \in StationLists, include_taf \in FlagInputs,
          hours_back \in NumInputs :
          /\ call' = [op |-> "get_weather_summary", layer |-> "client",
                      args |-> [station_ids |-> station_ids,
                                include_taf |-> include_taf,
                                hours_back |-> hours_back]]
          /\ locals' = [ids_str |-> StrV(Join(",", Val(station_ids)))]
    /\ pc' = "ws_metar"
    /\ UNCHANGED <<http, result>>

SummaryMetar ==
    /\ pc = "ws_metar"
    /\ \E outcome \in SubOutcomes :
          LET r == get_metar(locals.ids_str, StrV("json"), call.args.include_taf,
                               call.args.hours_back, NoneV, NoneV, outcome)
          IN  SubCall(r, [metar_data |-> r.ret, taf_data |-> NoneV],
                      SummaryAfterMetar(call.args.include_taf))

SummaryTaf ==
    /\ pc = "ws_taf"
    /\ \E outcome \in SubOutcomes :
          LET r == get_taf(locals.ids_str, StrV("json"), BoolV(FALSE), NoneV, NoneV,
                               NoneV, outcome)
          IN  SubCall(r, [taf_data |-> r.ret],
                      "ws_stationinfo")

SummaryStationInfo ==
    /\ pc = "ws_stationinfo"
    /\ \E outcome \in SubOutcomes, now \in Ticks :
          LET r == get_stationinfo(locals.ids_str, NoneV, StrV("json"), outcome)
          IN  LastSubCall(r, SummaryBundle(locals.metar_data, locals.taf_data, r.ret,
                                           now, call.args.station_ids))

CallGetAreaWeather ==
    /\ pc = "idle"
    /\ \E bbox \in { StrV(BboxInput), StrV("") }, include_taf \in FlagInputs,
          include_sigmet \in FlagInputs :
          call' = [op |-> "get_area_weather", layer |-> "client",
                   args |-> [bbox |-> bbox, include_taf |-> include_taf,
                             include_sigmet |-> include_sigmet]]
    /\ locals' = NoLocals
    /\ pc' = "aw_metar"
    /\ UNCHANGED <<http, result>>

AreaMetar ==
    /\ pc = "aw_metar"
    /\ \E outcome \in SubOutcomes :
          LET r == get_metar(NoneV, StrV("json"), call.args.include_taf, NoneV,
                               call.args.bbox, NoneV, outcome)
          IN  SubCall(r, [metar_data |-> r.ret, taf_data |-> NoneV, sigmet_data |-> NoneV],
                      AreaAfterMetar(call.args.include_taf, call.args.include_sigmet))

AreaTaf ==
    /\ pc = "aw_taf"
    /\ \E outcome \in SubOutcomes :
          LET r == get_taf(NoneV, StrV("json"), BoolV(FALSE), call.args.bbox, NoneV,
                               NoneV, outcome)
          IN  SubCall(r, [taf_data |-> r.ret],
                      AreaAfterTaf(call.args.include_sigmet))

AreaSigmet ==
    /\ pc = "aw_sigmet"
    /\ \E outcome \in SubOutcomes :
          LET r == get_airsigmet(StrV("json"), NoneV, NoneV, NoneV, outcome)
          IN  SubCall(r, [sigmet_data |-> r.ret],
                      "aw_stationinfo")

AreaStationInfo ==
    /\ pc = "aw_stationinfo"
    /\ \E outcome \in SubOutcomes, now \in Ticks :
          LET r == get_stationinfo(NoneV, call.args.bbox, StrV("json"), outcome)
          IN  LastSubCall(r, AreaBundle(locals.metar_data, locals.taf_data,
                                        locals.sigmet_data, r.ret, call.args.bbox, now))

\* the invocation is over; the server waits for the next one
Return ==
    /\ pc = "done"
    /\ pc' = "idle"
    /\ call' = NoCall
    /\ locals' = NoLocals
    /\ http' = <<>>
    /\ result' = NoneV

Next ==
    \/ CallGetMetarData
    \/ CallGetTafData
    \/ CallGetPirepData
    \/ CallGetAirportInformation
    \/ CallGetAtisData
    \/ CallGetMetar
    \/ CallGetTaf
    \/ CallGetPirep
    \/ CallGetAirsigmet
    \/ CallGetIsigmet
    \/ CallGetGairmet
    \/ CallGetCwa
    \/ CallGetWindtemp
    \/ CallGetAreafcst
    \/ CallGetFcstdisc
    \/ CallGetMis
    \/ CallGetStationinfo
    \/ CallGetAirport
    \/ CallGetNavaid
    \/ CallGetFix
    \/ CallGetFeature
    \/ CallGetObstacle
    \/ CallGetStations
    \/ CallGetAllAtis
    \/ CallGetAirportAtis
    \/ CallGetAirportAtisWithInfo
    \/ CallGetWeatherSummary
    \/ SummaryMetar
    \/ SummaryTaf
    \/ SummaryStationInfo
    \/ CallGetAreaWeather
    \/ AreaMetar
    \/ AreaTaf
    \/ AreaSigmet
    \/ AreaStationInfo
    \/ Return

Spec == Init /\ [][Next]_vars

(* ensure_dict_response called on its own *)

\* values a client could hand to ensure_dict_response
PyValues ==
    JsonObjects \cup JsonArrays \cup JsonScalars
    \cup { BoolV(FALSE), IntV(0), IntV(-3), StrV(""), ListV(<<ListV(<<>>), NoneV>>),
           DictV([data |-> ListV(<<>>), count |-> IntV(0)]),
           DictV([data |-> NoneV, raw_value |-> StrV("None")]),
           DictV([raw_data |-> StrV("")]),
           DictV([error |-> StrV("gone"), status_code |-> IntV(404)]) }

CallEnsureDictResponse ==
    /\ pc = "idle"
    /\ \E res \in PyValues :
          /\ call' = [op |-> "ensure_dict_response", layer |-> "function",
                      args |-> [result |-> res]]
          /\ result' = ensure_dict_response(res)
    /\ pc' = "done"
    /\ UNCHANGED <<locals, http>>

\* what it returned is passed through it once more
EnsureDictResponseAgain ==
    /\ pc = "done"
    /\ call.op = "ensure_dict_response"
    /\ DOMAIN locals = {}
    /\ locals' = [first |-> result]
    /\ result' = ensure_dict_response(result)
    /\ UNCHANGED <<pc, call, http>>

EnsureNext ==
    \/ Next
    \/ CallEnsureDictResponse
    \/ EnsureDictResponseAgain

EnsureSpec == Init /\ [][EnsureNext]_vars

---------------------------------------------------------------------------
(* Properties *)

Exchanges == { http[i] : i \in 1..Len(http) }

IsResponse(o) == o.kind = "response"
\* the response passes raise_for_status
PassedStatus(o) == IsResponse(o) /\ ~(o.status >= 400 /\ o.status < 600)
IsJson(o) == o.body[1] = "json"
ToolDone(op) == pc = "done" /\ call.layer = "tool" /\ call.op = op
ClientDone(op) == pc = "done" /\ call.layer = "client" /\ call.op = op

C2_Original ==
    \A x \in Exchanges :
        (PassedStatus(x.outcome) /\ IsJson(x.outcome) /\ IsDict(x.outcome.body[2]))
            => x.ret = x.outcome.body[2]

\* C2 as amended: the weather client returns every such object unchanged,
\* a top-level 'error' key included; the ATIS client returns unchanged the
\* objects that have no top-level 'error' key, and for an object with one it
\* returns {error: that value, status_code: the HTTP status} instead.
C2_Amended ==
    \A x \in Exchanges :
        (PassedStatus(x.outcome) /\ IsJson(x.outcome) /\ IsDict(x.outcome.body[2]))
            => LET obj == x.outcome.body[2]
               IN  IF x.client = "atis" /\ HasKey(obj, "error")
                   THEN x.ret = DictV([error |-> Get(obj, "error"),
                                       status_code |-> IntV(x.outcome.status)])
                   ELSE x.ret = obj

\* the weather client received an object with a top-level 'error' key
C2_Witness ==
    /\ pc = "done"
    /\ \E x \in Exchanges :
          /\ x.client = "weather"
          /\ PassedStatus(x.outcome) /\ IsJson(x.outcome)
          /\ x.outcome.body[2] = DictV([error |-> StrV("not found")])
          /\ x.ret = x.outcome.body[2]

\* C3: for a body received with a success status that is no JSON object,
\* both clients return: {data: array, count: N} for an array of length N;
\* {data: v, raw_value: str(v)} for a scalar v (null included);
\* {raw_data: t} for a body t that is not JSON.
C3_NonObjectShapes ==
    \A x \in Exchanges :
        PassedStatus(x.outcome) =>
            IF ~IsJson(x.outcome)
            THEN x.ret = DictV([raw_data |-> StrV(x.outcome.body[2])])
            ELSE LET v == x.outcome.body[2]
                 IN  /\ IsList(v) =>
                           x.ret = DictV([data |-> v, count |-> IntV(Len(Val(v)))])
                     /\ Tag(v) \in {"none", "bool", "int", "str"} =>
                           x.ret = DictV([data |-> v, raw_value |-> StrV(PyStr(v))])

\* the ATIS client received a JSON null
C3_Witness ==
    /\ pc = "done"
    /\ \E x \in Exchanges :
          /\ PassedStatus(x.outcome) /\ IsJson(x.outcome)
          /\ x.client = "atis"
          /\ x.outcome.body[2] = NoneV
          /\ x.ret = DictV([data |-> NoneV, raw_value |-> StrV("None")])

\* the {error, status_code} mapping of a failed exchange
FailureShape(x) ==
    IF IsResponse(x.outcome)
    THEN DictV([error |-> StrV(HTTPError(x.url, x.outcome).msg),
                status_code |-> IntV(x.outcome.status)])
    ELSE DictV([error |-> StrV(x.outcome.exc.msg), status_code |-> NoneV])

C5_OppositeReportDisabled ==
    /\ ToolDone("get_metar_data") =>
          /\ Len(http) = 1
          /\ "taf" \in DOMAIN http[1].params
          /\ http[1].params["taf"] = StrV("false")
    /\ ToolDone("get_taf_data") =>
          /\ Len(http) = 1
          /\ "metar" \in DOMAIN http[1].params
          /\ http[1].params["metar"] = StrV("false")

\* the TAF tool was called with every optional argument passed
C5_Witness ==
    /\ ToolDone("get_taf_data")
    /\ call.args.time # NoneV /\ call.args.date # NoneV
    /\ http[1].endpoint = "/data/taf"
    /\ http[1].params["metar"] = StrV("false")

\* what the identifier s becomes when upper-cased and stripped
Normalized(s) == StrV(Strip(Upper(Val(s))))

\* C6 as stated: in the request of every tool that takes one station or
\* airport identifier (METAR, TAF, PIREP, airport information, ATIS) the
\* identifier is the upper-cased, stripped form of what the caller passed.
C6_IdentifierNormalized ==
    /\ ToolDone("get_metar_data") =>
          ("ids" \in DOMAIN http[1].params
              => http[1].params["ids"] = Normalized(call.args.station_id))
    /\ ToolDone("get_taf_data") =>
          ("ids" \in DOMAIN http[1].params
              => http[1].params["ids"] = Normalized(call.args.station_id))
    /\ ToolDone("get_pirep_data") =>
          ("id" \in DOMAIN http[1].params
              => http[1].params["id"] = Normalized(call.args.station_id))
    /\ ToolDone("get_airport_information") =>
          ("ids" \in DOMAIN http[1].params
              => http[1].params["ids"] = Normalized(call.args.airport_id))
    /\ ToolDone("get_atis_data") =>
          http[1].endpoint = "/" \o Val(Normalized(call.args.airport_id))

\* C7: get_airport_atis_with_info returns the normalized result of the
\* single-airport lookup with a 'metadata' object (the requested identifier
\* upper-cased and stripped, a timestamp, the source) when that result has
\* no 'error' key, and returns it unchanged, without 'metadata', when it has.
C7_MetadataOnSuccessOnly ==
    ClientDone("get_airport_atis_with_info") =>
        LET normalized == http[1].ret
        IN  IF ~HasKey(normalized, "error")
            THEN /\ IsDict(result)
                 /\ HasKey(result, "metadata")
                 /\ IsDict(Get(result, "metadata"))
                 /\ DOMAIN Val(Get(result, "metadata"))
                        = {"airport_id", "timestamp", "source"}
                 /\ Get(Get(result, "metadata"), "airport_id")
                        = Normalized(call.args.airport_id)
                 /\ \E t \in Ticks :
                        Get(Get(result, "metadata"), "timestamp") = StrV(isoformat(t))
                 /\ Get(Get(result, "metadata"), "source")
                        = StrV("FAA Digital ATIS API")
                 /\ \A k \in DOMAIN Val(normalized) \ {"metadata"} :
                        HasKey(result, k) /\ Get(result, k) = Get(normalized, k)
            ELSE /\ result = normalized
                 /\ ~HasKey(result, "metadata")

\* an upstream object that brings an 'error' key and a 'metadata' key of
\* its own came back for "\tKlax\n"
C7_Witness ==
    /\ ClientDone("get_airport_atis_with_info")
    /\ call.args.airport_id = StrV("\tKlax\n")
    /\ http[1].endpoint = "/KLAX"
    /\ http[1].outcome = Response(200, "OK",
                             JsonBody(DictV([error |-> NoneV, metadata |-> IntV(7)])))
    /\ HasKey(result, "error")
    /\ ~HasKey(result, "metadata")

\* C8 as stated: the ATIS tool called with "klax", the upstream answering
\* 404 with the body {"error": "not found"}, returns exactly
\* {error: "not found", status_code: 404}.
C8_UpstreamErrorOn404 ==
    ( /\ ToolDone("get_atis_data")
      /\ call.args.airport_id = StrV("klax")
      /\ http[1].outcome = Response(404, "Not Found",
                               JsonBody(DictV([error |-> StrV("not found")]))) )
        => result = DictV([error |-> StrV("not found"), status_code |-> IntV(404)])

\* the numeric parameters of the weather client's methods
NumericParams(op) ==
    CASE op = "get_metar" -> {"hours"}
      [] op = "get_pirep" -> {"age", "distance", "level"}
      [] op \in {"get_airsigmet", "get_isigmet"} -> {"level"}
      [] OTHER -> {}

\* C9 as stated: a numeric parameter (hours, age, distance, level) the
\* caller passes as 0 is in the outbound query parameters; only None leaves
\* the key out.
C9_ZeroIsSupplied ==
    (pc = "done" /\ call.layer = "client") =>
        \A k \in NumericParams(call.op) :
            /\ call.args[k] = IntV(0) => k \in DOMAIN http[1].params
            /\ call.args[k] = NoneV => k \notin DOMAIN http[1].params

\* C10: get_weather_summary with include_taf=False makes exactly two
\* requests, the METAR lookup and then the station-info lookup, and no TAF
\* request; the 'taf' field of what it returns is null and
\* 'stations_requested' is the list it was given.
C10_SummaryWithoutTaf ==
    (call.op = "get_weather_summary" /\ call.args.include_taf = BoolV(FALSE)) =>
        /\ \A x \in Exchanges : x.endpoint # "/data/taf"
        /\ pc = "done" =>
              /\ Len(http) = 2
              /\ http[1].endpoint = "/data/metar"
              /\ http[2].endpoint = "/data/stationinfo"
              /\ IsDict(result)
              /\ Get(result, "taf") = NoneV
              /\ Get(result, "stations_requested") = call.args.station_ids

\* the summary for KJFK and KLAX without TAF has returned, its METAR
\* lookup having failed
C10_Witness ==
    /\ ClientDone("get_weather_summary")
    /\ call.args.include_taf = BoolV(FALSE)
    /\ call.args.station_ids = ListV(<<StrV("KJFK"), StrV("KLAX")>>)
    /\ http[1].params["ids"] = StrV("KJFK,KLAX")
    /\ HasKey(Get(result, "metar"), "error")
    /\ Get(result, "taf") = NoneV

\* the operations that make several requests
CompositeOps == {"get_weather_summary", "get_area_weather"}
\* a tool or client operation that makes one lookup has returned
SimpleLookupDone ==
    pc = "done" /\ call.layer \in {"tool", "client"} /\ call.op \notin CompositeOps
\* no endpoint was requested twice in this invocation
NoRetry ==
    \A i, j \in 1..Len(http) : http[i].endpoint = http[j].endpoint => i = j

\* C11 as stated: an invocation makes a bounded number of GET requests and
\* never repeats one: exactly 1 for a simple lookup whatever its outcome, at
\* most 3 for get_weather_summary and for get_area_weather, whatever their
\* include flags.
C11_Original ==
    /\ SimpleLookupDone => Len(http) = 1
    /\ call.op \in CompositeOps => Len(http) <= 3
    /\ NoRetry

\* C11 as amended: exactly 1 request for a simple lookup whatever its
\* outcome, at most 3 for get_weather_summary, at most 4 for get_area_weather
\* (METAR, TAF, SIGMET and station info when both include flags are set);
\* no request is repeated.
C11_Amended ==
    /\ SimpleLookupDone => Len(http) = 1
    /\ call.op = "get_weather_summary" => Len(http) <= 3
    /\ call.op = "get_area_weather" => Len(http) <= 4
    /\ NoRetry

\* the area operation with both include flags has returned after four
\* requests, the first of which timed out
C11_Witness ==
    /\ ClientDone("get_area_weather")
    /\ call.args.include_taf = BoolV(TRUE)
    /\ call.args.include_sigmet = BoolV(TRUE)
    /\ Len(http) = 4
    /\ http[1].outcome.kind = "exception"

\* the endpoints a composite operation called with these flags requests, in
\* order
SubCallOrder ==
    <<"/data/metar">>
    \o (IF Truthy(call.args.include_taf) THEN <<"/data/taf">> ELSE <<>>)
    \o (IF call.op = "get_area_weather" /\ Truthy(call.args.include_sigmet)
        THEN <<"/data/airsigmet">> ELSE <<>>)
    \o <<"/data/stationinfo">>
\* the position of the endpoint e in the order
SubCallIndex(e) == CHOOSE i \in 1..Len(SubCallOrder) : SubCallOrder[i] = e
\* what the sub-call for the endpoint e came back with
SubResult(e) == http[SubCallIndex(e)].ret

\* C12: get_weather_summary and get_area_weather issue their sub-calls one
\* at a time in the order METAR, TAF (if requested), SIGMET (if requested,
\* area only), station info; a sub-call that failed does not stop the later
\* ones; the operation returns its bundle normally, each sub-result being
\* what that sub-call returned, the {error, status_code} mapping of a failed
\* one included.
C12_SequentialFailOpen ==
    call.op \in CompositeOps =>
        /\ Len(http) <= Len(SubCallOrder)
        /\ \A i \in 1..Len(http) : http[i].endpoint = SubCallOrder[i]
        /\ pc # "done" => Len(http) < Len(SubCallOrder)
        /\ pc = "done" =>
              /\ Len(http) = Len(SubCallOrder)
              /\ IsDict(result)
              /\ Get(result, "metar") = SubResult("/data/metar")
              /\ Get(result, "taf") = IF Truthy(call.args.include_taf)
                                      THEN SubResult("/data/taf") ELSE NoneV
              /\ call.op = "get_area_weather" =>
                    Get(result, "sigmet") = IF Truthy(call.args.include_sigmet)
                                            THEN SubResult("/data/airsigmet")
                                            ELSE NoneV
              /\ Get(result, "station_info") = SubResult("/data/stationinfo")
              /\ \A i \in 1..Len(http) :
                    ~PassedStatus(http[i].outcome) =>
                        http[i].ret = FailureShape(http[i])

\* the area operation with both include flags has returned: its METAR
\* lookup got a 404 and its TAF lookup timed out, the SIGMET and station
\* lookups were made all the same and succeeded
C12_Witness ==
    /\ ClientDone("get_area_weather")
    /\ Len(http) = 4
    /\ IsResponse(http[1].outcome) /\ http[1].outcome.status = 404
    /\ ~IsResponse(http[2].outcome)
    /\ PassedStatus(http[3].outcome) /\ PassedStatus(http[4].outcome)
    /\ Get(Get(result, "metar"), "status_code") = IntV(404)
    /\ Get(Get(result, "taf"), "status_code") = NoneV
    /\ ~HasKey(Get(result, "sigmet"), "error")
    /\ ~HasKey(Get(result, "station_info"), "error")

\* C13 as stated: the query parameters of every request of the weather
\* client hold no key whose value is null or the empty string; an input
\* that is None or empty is left out, the 'format', 'region' and 'type' of
\* the methods that seed their parameters included.
C13_NoNullOrEmptyParam ==
    \A x \in Exchanges :
        x.client = "weather" =>
            \A k \in DOMAIN x.params : x.params[k] \notin {NoneV, StrV("")}

\* ensure_dict_response has returned
EnsureDone == pc = "done" /\ call.op = "ensure_dict_response"
\* the upstream answers 200 with the JSON value v
Ok200(v) == Response(200, "OK", JsonBody(v))

\* C14: ensure_dict_response classifies like the normalizer (a list gives
\* {data, count}, a mapping gives itself, anything else gives
\* {data, raw_value}); applying it twice gives what applying it once gives;
\* and what a tool returns is the mapping its client method returned,
\* unchanged, whatever the upstream answered.
C14_FinalReshape ==
    /\ (EnsureDone /\ DOMAIN locals = {}) =>
          LET v == call.args.result
          IN  /\ result = WeatherRetriever_make_request("/data/metar", EmptyMap, Ok200(v))
              /\ ~(IsDict(v) /\ HasKey(v, "error")) =>
                    result = ATISRetriever_make_request("/stations", NoneV, Ok200(v))
              /\ IsList(v) => DOMAIN Val(result) = {"data", "count"}
              /\ IsDict(v) => result = v
              /\ (~IsList(v) /\ ~IsDict(v)) => DOMAIN Val(result) = {"data", "raw_value"}
    /\ (EnsureDone /\ DOMAIN locals # {}) => result = locals.first
    /\ \A op \in {"get_metar_data", "get_taf_data", "get_pirep_data",
                   "get_airport_information"} :
          ToolDone(op) => (Len(http) = 1 /\ result = http[1].ret)
    /\ ToolDone("get_atis_data") =>
          /\ Len(http) = 1
          /\ \E now \in Ticks :
                result = get_airport_atis_with_info(call.args.airport_id,
                                                    http[1].outcome, now).ret

\* ensure_dict_response was given a two-element list and then given what
\* it had made of it
C14_Witness ==
    /\ EnsureDone
    /\ call.args.result = ListV(<<IntV(1), IntV(1)>>)
    /\ DOMAIN locals # {}
    /\ result = DictV([data |-> ListV(<<IntV(1), IntV(1)>>), count |-> IntV(2)])

\* the response is a JSON object with a top-level 'error' key
HasErrorBody(o) ==
    IsResponse(o) /\ IsJson(o) /\ IsDict(o.body[2]) /\ HasKey(o.body[2], "error")
\* the status is a 4xx or a 5xx
IsErrorStatus(o) == IsResponse(o) /\ o.status >= 400 /\ o.status < 600

=============================================================================
